---- MODULE Spec2Model ----
(***************************************************************************)
(* Model of the trip API of nlw-journey-trilha-go: the HTTP handlers of    *)
(* internal/api (participant confirmation, trip creation, trip             *)
(* confirmation, invitation, itinerary aggregation), the persistence       *)
(* gateway they call (pgstore over a pgx pool) and the fire-and-forget     *)
(* mailer goroutines they spawn.                                           *)
(*                                                                         *)
(* Every handler runs in its own goroutine (net/http), so handlers         *)
(* interleave at their store calls: one action of the model is the code    *)
(* of a handler from one store call up to the next.                        *)
(***************************************************************************)
EXTENDS Integers, Sequences, FiniteSets, TLC

\* ---------------------------------------------------------------- bounds

\* Number of HTTP requests served in one behaviour.
MaxCalls == 2

\* Longest activity list handed to the itinerary aggregator.
MaxActs == 4

\* Number of distinct occurs_at values of the aggregator's inputs.
NumDates == 3

\* Number of distinct dates a request body may give for a trip's window.
NumTripDates == 2

Calls == 1..MaxCalls

\* starts_at / ends_at values of request bodies.
TripDates == 1..NumTripDates

\* time.Time{}: the zero value of a time field never assigned (year 1,
\* before every date a client sends).
ZeroTime == 0

\* The starts_at / ends_at pairs of CreateTripRequest and UpdateTripRequest
\* bodies, in either order.
Windows == [StartsAt : TripDates, EndsAt : TripDates]

Dates == 1..NumDates

\* E-mail addresses of request bodies; BadEmail fails the validator's
\* "email" rule, the empty string is what a body that failed to decode
\* holds (the handlers do not return on a decode error).
ValidEmails == {"a@x", "b@x"}

BadEmail == "not-an-email"

Emails == ValidEmails \cup {BadEmail, ""}

\* emails_to_invite of a CreateTripRequest.
InviteLists == {<< >>, <<"a@x">>, <<"a@x", "b@x">>}

\* The path parameter of a request: the text of a uuid (modelled by the
\* number of the uuid) or a string that uuid.Parse rejects.
UUIDText(i) == [text |-> "uuid", id |-> i]

BadUUID == [text |-> "zz", id |-> 0]

VARIABLES
    trips,          \* store: trip id -> row of table trips
    participants,   \* store: participant id -> row of table participants (committed)
    activities,     \* store: activity id -> row of table activities
    nextID,         \* the next uuid the database generates
    op,             \* call -> handler serving it ("idle": not yet received)
    pc,             \* call -> position of the handler
    arg,            \* call -> the uuid parsed from the path (0: none)
    lookup,         \* call -> err of the handler's GetParticipant / GetTrip
    prior,          \* call -> the calls that had returned when it was received
    email,          \* call -> body.Email of an invitation request, once decoded
    local,          \* call -> `body` and `trip` of a PutTripsTripID handler
    request,        \* call -> r.Body of a PostTripsTripIDActivities request
    resp,           \* call -> response returned by the handler
    tx,             \* call -> the pgx transaction of the handler
    inserted,       \* call -> ids of the rows its InviteParticipantsToTrip created
    writes,         \* call -> the store writes the handler issued, in order
    tasks,          \* goroutines spawned by "go func()": sequence of records
    logs,           \* api.logger.Error entries written by the goroutines
    outbox,         \* the messages DialAndSend delivered: goroutine and recipients
    acts,           \* aggregator: the list GetTripActivities returned
    actsBy,         \* aggregator: the copy of the handler that served the request
    actsResp        \* aggregator: the response of GetTripsTripIDActivities

storeVars == <<trips, participants, activities, nextID>>

callVars == <<op, pc, arg, lookup, prior, email, local, request, resp, tx, inserted, writes>>

aggVars == <<acts, actsBy, actsResp>>

vars == <<trips, participants, activities, nextID, op, pc, arg, lookup, prior, email, local,
          request, resp, tx, inserted, writes, tasks, logs, outbox, acts, actsBy, actsResp>>

\* ------------------------------------------------------------- responses

Resp(code, msg) == [code |-> code, msg |-> msg]

\* No response written (the handler has not returned, or it panicked).
NoResp == Resp(0, "")


\* A Go slice: nil until something is appended or an empty literal assigned.
NilSlice == [isNil |-> TRUE, elems |-> << >>]

EmptySlice == [isNil |-> FALSE, elems |-> << >>]

AppendSlice(s, x) == [isNil |-> FALSE, elems |-> Append(s.elems, x)]

\* The response of GetTripsTripIDActivities: status, error message, and
\* the `activities` field of a GetTripActivitiesResponse.
Itinerary(code, msg, groups) == [code |-> code, msg |-> msg, activities |-> groups]

NoItinerary == Itinerary(0, "", NilSlice)

\* uuid.Parse: the text of a uuid parses to that uuid, anything else fails.
ParseUUID(s) == IF s.text = "uuid" THEN [ok |-> TRUE, id |-> s.id] ELSE [ok |-> FALSE, id |-> 0]

\* validator.Struct on a body with an `email` field: required and well formed.
ValidEmail(e) == e \in ValidEmails

\* The path parameters a client may send: any uuid the database has
\* generated, one it has not, or a malformed string.
PathParams == {UUIDText(i) : i \in 1..nextID} \cup {BadUUID}

\* ------------------------------------------------------ persistence gateway

\* GetParticipant: the row, pgx.ErrNoRows when there is none, or another
\* error (a cancelled context, a lost connection).
GetParticipant(id, fault) ==
    IF fault THEN "error" ELSE IF id \in DOMAIN participants THEN "nil" ELSE "ErrNoRows"

\* GetTrip, likewise.
GetTrip(id, fault) ==
    IF fault THEN "error" ELSE IF id \in DOMAIN trips THEN "nil" ELSE "ErrNoRows"

\* ConfirmParticipant: UPDATE participants SET is_confirmed = true WHERE id = $1.
StoreConfirmParticipant(ps, id) ==
    [p \in DOMAIN ps |-> IF p = id THEN [ps[p] EXCEPT !.is_confirmed = TRUE] ELSE ps[p]]

\* The participant rows CreateTrip inserts for emails_to_invite, ids from `first`.
InvitedRows(tripID, invites, first) ==
    [p \in first..(first + Len(invites) - 1) |->
        [trip_id |-> tripID, email |-> invites[p - first + 1], is_confirmed |-> FALSE]]

\* uniqueness of (trip_id, email), enforced by the gateway.
Duplicate(ps, tripID, e) ==
    \E p \in DOMAIN ps : ps[p].trip_id = tripID /\ ps[p].email = e

\* UpdateTrip: UPDATE trips SET destination, ends_at, starts_at,
\* is_confirmed WHERE id = params.ID (no row: nothing changes).
StoreUpdateTrip(ts, params) ==
    [t \in DOMAIN ts |->
        IF t = params.ID
          THEN [is_confirmed |-> params.IsConfirmed,
                starts_at |-> params.StartsAt, ends_at |-> params.EndsAt]
          ELSE ts[t]]

\* CreateActivity: INSERT INTO activities (trip_id, title, occurs_at).
StoreCreateActivity(as, id, params) ==
    as @@ (id :> [trip_id |-> params.TripID, title |-> params.Title,
                  occurs_at |-> params.OccursAt])

\* The validation boundary's rule on a date range: endsAt earlier than
\* startsAt is malformed.
ValidDateRange(body) == body.StartsAt <= body.EndsAt

\* GetParticipants(tripID)
Roster(tripID) == {p \in DOMAIN participants : participants[p].trip_id = tripID}

\* ------------------------------------------------------------------ init

NoTrips == [t \in {} |-> [is_confirmed |-> FALSE, starts_at |-> ZeroTime, ends_at |-> ZeroTime]]

NoActivities == [a \in {} |-> [trip_id |-> 0, title |-> "", occurs_at |-> ZeroTime]]

\* No activity body received.
NoRequest == [Title |-> "", OccursAt |-> ZeroTime]

\* The locals of a PutTripsTripID handler before GetTrip and Decode.
NoLocal == [StartsAt |-> ZeroTime, EndsAt |-> ZeroTime, IsConfirmed |-> FALSE]

NoParticipants == [p \in {} |-> [trip_id |-> 0, email |-> "", is_confirmed |-> FALSE]]

\* No transaction begun.
NoTx == [state |-> "none", pending |-> NoParticipants]

\* The database the API is constructed over (NewApi takes an open pool):
\* empty, or holding trip 1 with one invited participant 2. The trip may
\* have been confirmed outside this API. It has no activity yet.
InitStore ==
    /\ activities = NoActivities
    /\ \/ /\ trips = NoTrips
          /\ participants = NoParticipants
          /\ nextID = 1
       \/ \E confirmed \in BOOLEAN :
           /\ trips = (1 :> [is_confirmed |-> confirmed, starts_at |-> 1, ends_at |-> NumTripDates])
           /\ participants = (2 :> [trip_id |-> 1, email |-> "a@x", is_confirmed |-> FALSE])
           /\ nextID = 3

InitCalls ==
    /\ op = [c \in Calls |-> "idle"]
    /\ pc = [c \in Calls |-> "idle"]
    /\ arg = [c \in Calls |-> 0]
    /\ lookup = [c \in Calls |-> "none"]
    /\ prior = [c \in Calls |-> {}]
    /\ email = [c \in Calls |-> ""]
    /\ local = [c \in Calls |-> NoLocal]
    /\ request = [c \in Calls |-> NoRequest]
    /\ resp = [c \in Calls |-> NoResp]
    /\ tx = [c \in Calls |-> NoTx]
    /\ inserted = [c \in Calls |-> {}]
    /\ writes = [c \in Calls |-> << >>]
    /\ tasks = << >>
    /\ logs = {}
    /\ outbox = {}

Init ==
    /\ InitStore
    /\ InitCalls
    /\ acts = << >>
    /\ actsBy = "none"
    /\ actsResp = NoItinerary

\* ------------------------------------------------------- handler plumbing

\* A request is received: requests are numbered in the order they arrive.
Arrives(c) ==
    /\ op[c] = "idle"
    /\ IF c = 1 THEN TRUE ELSE op[c - 1] # "idle"

\* The handler of call c is `name`, its path parameter parsed to `id` and
\* its first store read returned `err` ("none": not reached).
Serve(c, name, id, err) ==
    /\ op' = [op EXCEPT ![c] = name]
    /\ arg' = [arg EXCEPT ![c] = id]
    /\ lookup' = [lookup EXCEPT ![c] = err]
    /\ prior' = [prior EXCEPT ![c] = {d \in Calls : pc[d] = "done"}]

\* A handler goes on (no response yet) or returns the response r.
GoOn == NoResp

Then(c, r, label) == IF r = GoOn THEN /\ pc' = [pc EXCEPT ![c] = label]
                                      /\ UNCHANGED resp
                     ELSE /\ pc' = [pc EXCEPT ![c] = "done"]
                          /\ resp' = [resp EXCEPT ![c] = r]

\* The handler returns response r.
Return(c, r) ==
    /\ pc' = [pc EXCEPT ![c] = "done"]
    /\ resp' = [resp EXCEPT ![c] = r]

\* The handler goes on to its next store call.
Goto(c, label) ==
    /\ pc' = [pc EXCEPT ![c] = label]
    /\ UNCHANGED resp

\* The handler issues store write fn(id).
Issue(c, fn, id) == writes' = [writes EXCEPT ![c] = Append(@, [fn |-> fn, id |-> id])]

\* "go func() { ... }()": one goroutine running mailer method `kind` for trip.
Spawn(c, kind, tripID) ==
    Append(tasks, [by |-> c, kind |-> kind, trip |-> tripID, status |-> "running"])

\* The goroutines call c has spawned.
TasksOf(c) == {i \in DOMAIN tasks : tasks[i].by = c}

\* ---------------------- PATCH /participants/{participantId}/confirm

\* CheckParticipant without the IsConfirmed test: a participant found is
\* confirmed again.
CheckParticipantConfirmedUntested(err, id) ==
    IF err = "ErrNoRows" THEN Resp(400, "participant not found")
    ELSE IF err # "nil" THEN Resp(400, "something went wrong, try again")
    ELSE GoOn

\* CheckParticipant without its pgx.ErrNoRows branch taken: the zero
\* Participant the store returned with the error is used as if found.
CheckParticipantNoRowsUnchecked(err, id) ==
    IF err \notin {"nil", "ErrNoRows"} THEN Resp(400, "something went wrong, try again")
    ELSE IF id \in DOMAIN participants /\ participants[id].is_confirmed
           THEN Resp(400, "participant already confirmed")
    ELSE GoOn

\* The handler's answer to what GetParticipant returned: its error
\* branches and the IsConfirmed test.
CheckParticipant(err, id) ==
    IF err = "ErrNoRows" THEN Resp(400, "participant not found")
    ELSE IF err # "nil" THEN Resp(400, "something went wrong, try again")
    ELSE IF participants[id].is_confirmed THEN Resp(400, "participant already confirmed")
    ELSE GoOn

\* uuid.Parse, GetParticipant and the tests on its result.
PatchParticipantsParticipantIDConfirm_Get(c) ==
    /\ Arrives(c)
    /\ \E participantID \in PathParams, fault \in BOOLEAN :
        LET u == ParseUUID(participantID)
            err == GetParticipant(u.id, fault)
        IN  IF ~u.ok
              THEN /\ Serve(c, "PatchParticipantsParticipantIDConfirm", 0, "none")
                   /\ Return(c, Resp(400, "invalid uuid"))
              ELSE /\ Serve(c, "PatchParticipantsParticipantIDConfirm", u.id, err)
                   /\ Then(c, CheckParticipant(err, u.id), "confirm")
    /\ UNCHANGED <<storeVars, email, local, request, tx, inserted, writes, tasks, logs, outbox, aggVars>>

\* PatchParticipantsParticipantIDConfirm_Confirm with the error of
\* ConfirmParticipant dropped: 204 also when the write failed.
PatchParticipantsParticipantIDConfirm_ConfirmErrIgnored(c) ==
    /\ op[c] = "PatchParticipantsParticipantIDConfirm"
    /\ pc[c] = "confirm"
    /\ Issue(c, "ConfirmParticipant", arg[c])
    /\ \E fault \in BOOLEAN :
        /\ participants' = IF fault THEN participants
                           ELSE StoreConfirmParticipant(participants, arg[c])
        /\ Return(c, Resp(204, ""))
    /\ UNCHANGED <<trips, activities, nextID, op, arg, lookup, prior, email, local, request, tx, inserted, tasks, logs, outbox, aggVars>>

\* ConfirmParticipant and the 204 response.
PatchParticipantsParticipantIDConfirm_Confirm(c) ==
    /\ op[c] = "PatchParticipantsParticipantIDConfirm"
    /\ pc[c] = "confirm"
    /\ Issue(c, "ConfirmParticipant", arg[c])
    /\ \E fault \in BOOLEAN :
        IF fault
          THEN /\ Return(c, Resp(400, "something went wrong, try again"))
               /\ UNCHANGED participants
          ELSE /\ participants' = StoreConfirmParticipant(participants, arg[c])
               /\ Return(c, Resp(204, ""))
    /\ UNCHANGED <<trips, activities, nextID, op, arg, lookup, prior, email, local, request, tx, inserted, tasks, logs, outbox, aggVars>>

\* ------------------------------------------------------------ POST /trips

\* Decode, validator.Struct (`valid`: the rules on the other fields of the
\* body), CreateTrip and the go statement.
PostTrips_Create(c) ==
    /\ Arrives(c)
    /\ \E valid \in BOOLEAN, body \in Windows, invites \in InviteLists, fault \in BOOLEAN :
        IF ~(valid /\ ValidDateRange(body))
          THEN /\ Serve(c, "PostTrips", 0, "none")
               /\ Return(c, Resp(400, "invalid input"))
               /\ UNCHANGED <<storeVars, writes, tasks>>
        ELSE IF fault
          THEN /\ Serve(c, "PostTrips", 0, "none")
               /\ Issue(c, "CreateTrip", 0)
               /\ Return(c, Resp(400, "failed to create trip, try again"))
               /\ UNCHANGED <<storeVars, tasks>>
        ELSE /\ Serve(c, "PostTrips", nextID, "none")
             /\ Issue(c, "CreateTrip", nextID)
             /\ trips' = trips @@ (nextID :> [is_confirmed |-> FALSE,
                                               starts_at |-> body.StartsAt,
                                               ends_at |-> body.EndsAt])
             /\ UNCHANGED activities
             /\ participants' = participants @@ InvitedRows(nextID, invites, nextID + 1)
             /\ nextID' = nextID + 1 + Len(invites)
             /\ tasks' = Spawn(c, "SendConfirmTripEmailToTripOwner", nextID)
             /\ Goto(c, "return")
    /\ UNCHANGED <<email, local, request, tx, inserted, logs, outbox, aggVars>>

\* MayReturn of a handler that waits for its goroutines before it returns.
MayReturnAfterTask(c) == \A i \in DOMAIN tasks : tasks[i].by = c => tasks[i].status # "running"

\* A handler returns right after its go statement: the return waits for
\* nothing of the goroutine (no channel, no WaitGroup).
MayReturn(c) == TRUE

\* return spec.PostTripsJSON201Response(...)
PostTrips_Return(c) ==
    /\ op[c] = "PostTrips"
    /\ pc[c] = "return"
    /\ MayReturn(c)
    /\ Return(c, Resp(201, ""))
    /\ UNCHANGED <<storeVars, op, arg, lookup, prior, email, local, request, tx, inserted, writes, tasks, logs, outbox, aggVars>>

\* ------------------------------------------- GET /trips/{tripId}/confirm

\* ConfirmCheckTrip without its pgx.ErrNoRows branch taken: the zero Trip
\* the store returned with the error is used as if found.
ConfirmCheckTripNoRowsUnchecked(err) ==
    IF err \notin {"nil", "ErrNoRows"} THEN Resp(400, "something went wrong, try again")
    ELSE GoOn

\* The confirm handler's answer to what GetTrip returned.
ConfirmCheckTrip(err) ==
    IF err = "ErrNoRows" THEN Resp(400, "trip not found")
    ELSE IF err # "nil" THEN Resp(400, "something went wrong, try again")
    ELSE GoOn

\* uuid.Parse, GetTrip and the tests on its error.
GetTripsTripIDConfirm_Get(c) ==
    /\ Arrives(c)
    /\ \E tripID \in PathParams, fault \in BOOLEAN :
        LET u == ParseUUID(tripID)
            err == GetTrip(u.id, fault)
        IN  IF ~u.ok
              THEN /\ Serve(c, "GetTripsTripIDConfirm", 0, "none")
                   /\ Return(c, Resp(400, "invalid uuid"))
              ELSE /\ Serve(c, "GetTripsTripIDConfirm", u.id, err)
                   /\ Then(c, ConfirmCheckTrip(err), "confirm")
    /\ UNCHANGED <<storeVars, email, local, request, tx, inserted, writes, tasks, logs, outbox, aggVars>>

\* ConfirmDispatch with one goroutine per participant of the trip.
ConfirmDispatchPerParticipant(c, tripID) ==
    tasks \o [i \in 1..Cardinality(Roster(tripID)) |->
                [by |-> c, kind |-> "SendEmailInvitations", trip |-> tripID, status |-> "running"]]

\* The goroutines the confirm handler starts once its write succeeded: one,
\* whatever the roster of the trip.
ConfirmDispatch(c, tripID) == Spawn(c, "SendEmailInvitations", tripID)

\* GetTripsTripIDConfirm_Confirm with the go statement placed before the
\* test of ConfirmParticipant's error.
GetTripsTripIDConfirm_ConfirmSpawnFirst(c) ==
    /\ op[c] = "GetTripsTripIDConfirm"
    /\ pc[c] = "confirm"
    /\ Issue(c, "ConfirmParticipant", arg[c])
    /\ tasks' = ConfirmDispatch(c, arg[c])
    /\ \E fault \in BOOLEAN :
        IF fault
          THEN /\ Return(c, Resp(400, "failed to confirm participant, try again"))
               /\ UNCHANGED participants
          ELSE /\ participants' = StoreConfirmParticipant(participants, arg[c])
               /\ Goto(c, "return")
    /\ UNCHANGED <<trips, activities, nextID, op, arg, lookup, prior, email, local, request, tx, inserted, logs, outbox, aggVars>>

\* api.store.ConfirmParticipant(ctx, tripUUID) and the go statement.
GetTripsTripIDConfirm_Confirm(c) ==
    /\ op[c] = "GetTripsTripIDConfirm"
    /\ pc[c] = "confirm"
    /\ Issue(c, "ConfirmParticipant", arg[c])
    /\ \E fault \in BOOLEAN :
        IF fault
          THEN /\ Return(c, Resp(400, "failed to confirm participant, try again"))
               /\ UNCHANGED <<participants, tasks>>
          ELSE /\ participants' = StoreConfirmParticipant(participants, arg[c])
               /\ tasks' = ConfirmDispatch(c, arg[c])
               /\ Goto(c, "return")
    /\ UNCHANGED <<trips, activities, nextID, op, arg, lookup, prior, email, local, request, tx, inserted, logs, outbox, aggVars>>

\* The response of the confirm handler after its go statement: it reads
\* nothing of the goroutine.
ConfirmResponse(c) == Resp(204, "")

\* return spec.GetTripsTripIDConfirmJSON204Response(nil)
GetTripsTripIDConfirm_Return(c) ==
    /\ op[c] = "GetTripsTripIDConfirm"
    /\ pc[c] = "return"
    /\ MayReturn(c)
    /\ Return(c, ConfirmResponse(c))
    /\ UNCHANGED <<storeVars, op, arg, lookup, prior, email, local, request, tx, inserted, writes, tasks, logs, outbox, aggVars>>

\* ------------------------------------------- POST /trips/{tripId}/invites

\* InvitesCheck without validator.Struct: any decoded body goes on to the
\* transaction.
InvitesCheckEmailUnchecked(err, e) ==
    IF err = "ErrNoRows" THEN Resp(400, "trip not found")
    ELSE IF err # "nil" THEN Resp(400, "something went wrong, try again")
    ELSE GoOn

\* The invitation handler's answer to what GetTrip returned and, the trip
\* found, to the body: validator.Struct rejects a missing or malformed
\* e-mail (a body that failed to decode is empty: the handler builds a
\* response for the decode error but does not return it).
InvitesCheck(err, e) ==
    IF err = "ErrNoRows" THEN Resp(400, "trip not found")
    ELSE IF err # "nil" THEN Resp(400, "something went wrong, try again")
    ELSE IF ~ValidEmail(e) THEN Resp(400, "invalid input")
    ELSE GoOn

\* uuid.Parse, GetTrip, Decode and validator.Struct.
PostTripsTripIDInvites_Get(c) ==
    /\ Arrives(c)
    /\ \E tripID \in PathParams, e \in Emails, fault \in BOOLEAN :
        LET u == ParseUUID(tripID)
            err == GetTrip(u.id, fault)
        IN  IF ~u.ok
              THEN /\ Serve(c, "PostTripsTripIDInvites", 0, "none")
                   /\ Return(c, Resp(400, "invalid uuid"))
                   /\ UNCHANGED email
              ELSE /\ Serve(c, "PostTripsTripIDInvites", u.id, err)
                   /\ email' = [email EXCEPT ![c] = IF err = "nil" THEN e ELSE @]
                   /\ Then(c, InvitesCheck(err, e), "begin")
    /\ UNCHANGED <<storeVars, local, request, tx, inserted, writes, tasks, logs, outbox, aggVars>>

\* tx.Rollback: closes an open transaction and discards its rows; on a
\* transaction already closed it does nothing (ErrTxClosed, ignored).
Rollback(t) == IF t.state = "open" THEN [state |-> "rolledback", pending |-> NoParticipants] ELSE t

\* DeferredRollback of a handler without the defer statement.
NoDeferredRollback(t) == t

\* defer func() { _ = tx.Rollback(r.Context()) }(): runs on every return
\* after Begin succeeded.
DeferredRollback(t) == Rollback(t)

\* api.pool.Begin: on success the rollback is deferred.
PostTripsTripIDInvites_Begin(c) ==
    /\ op[c] = "PostTripsTripIDInvites"
    /\ pc[c] = "begin"
    /\ Issue(c, "Begin", arg[c])
    /\ \E fault \in BOOLEAN :
        IF fault
          THEN /\ Return(c, Resp(400, "pgstore: failed to begin tx for PostTripsTripIDInvites"))
               /\ UNCHANGED tx
          ELSE /\ tx' = [tx EXCEPT ![c] = [state |-> "open", pending |-> NoParticipants]]
               /\ Goto(c, "insert")
    /\ UNCHANGED <<storeVars, op, arg, lookup, prior, email, local, request, inserted, tasks, logs, outbox, aggVars>>

\* VisibleAfterInsert of an insert made through api.store, outside the
\* transaction.
VisibleAfterInsertNoTx(ps, rows) == ps @@ rows

\* The table as other connections see it after an insert made through
\* qtx := api.store.WithTx(tx): unchanged until the commit.
VisibleAfterInsert(ps, rows) == ps

\* qtx.InviteParticipantsToTrip with the one participant of the body. A
\* failure (a duplicate (trip_id, e-mail), a cancelled context, a lost
\* connection) returns through the deferred rollback.
PostTripsTripIDInvites_Insert(c) ==
    /\ op[c] = "PostTripsTripIDInvites"
    /\ pc[c] = "insert"
    /\ Issue(c, "InviteParticipantsToTrip", arg[c])
    /\ \E fault \in BOOLEAN :
        IF fault \/ Duplicate(participants, arg[c], email[c])
          THEN /\ tx' = [tx EXCEPT ![c] = DeferredRollback(@)]
               /\ Return(c, Resp(400, "pgstore: failed to insert participants for PostTripsTripIDInvites"))
               /\ UNCHANGED <<participants, nextID, inserted>>
          ELSE LET rows == InvitedRows(arg[c], <<email[c]>>, nextID) IN
               /\ tx' = [tx EXCEPT ![c] = [state |-> "open", pending |-> rows]]
               /\ participants' = VisibleAfterInsert(participants, rows)
               /\ inserted' = [inserted EXCEPT ![c] = DOMAIN rows]
               /\ nextID' = nextID + 1
               /\ Goto(c, "commit")
    /\ UNCHANGED <<trips, activities, op, arg, lookup, prior, email, local, request, tasks, logs, outbox, aggVars>>

\* PostTripsTripIDInvites_Commit answering a failed commit with the
\* response of the validation branch.
PostTripsTripIDInvites_CommitFailureAsInvalid(c) ==
    /\ op[c] = "PostTripsTripIDInvites"
    /\ pc[c] = "commit"
    /\ Issue(c, "Commit", arg[c])
    /\ \E fault \in BOOLEAN :
        IF fault \/ Duplicate(participants, arg[c], email[c])
          THEN /\ tx' = [tx EXCEPT ![c] = DeferredRollback(@)]
               /\ Return(c, Resp(400, "invalid input"))
               /\ UNCHANGED participants
          ELSE /\ participants' = participants @@ tx[c].pending
               /\ tx' = [tx EXCEPT ![c] = DeferredRollback([state |-> "committed", pending |-> NoParticipants])]
               /\ Return(c, Resp(201, ""))
    /\ UNCHANGED <<trips, activities, nextID, op, arg, lookup, prior, email, local, request, inserted, tasks, logs, outbox, aggVars>>

\* tx.Commit: on success the rows become visible and the deferred rollback
\* finds the transaction closed; on failure the deferred rollback closes it.
PostTripsTripIDInvites_Commit(c) ==
    /\ op[c] = "PostTripsTripIDInvites"
    /\ pc[c] = "commit"
    /\ Issue(c, "Commit", arg[c])
    /\ \E fault \in BOOLEAN :
        IF fault \/ Duplicate(participants, arg[c], email[c])
          THEN /\ tx' = [tx EXCEPT ![c] = DeferredRollback(@)]
               /\ Return(c, Resp(400, "pgstore: failed to commit tx for PostTripsTripIDInvites"))
               /\ UNCHANGED participants
          ELSE /\ participants' = participants @@ tx[c].pending
               /\ tx' = [tx EXCEPT ![c] = DeferredRollback([state |-> "committed", pending |-> NoParticipants])]
               /\ Return(c, Resp(201, ""))
    /\ UNCHANGED <<trips, activities, nextID, op, arg, lookup, prior, email, local, request, inserted, tasks, logs, outbox, aggVars>>

\* ---------------------------------------------------- PUT /trips/{tripId}

\* validator.Struct on an UpdateTripRequest: the rules on the other fields
\* (`valid`) and the date range.
ValidUpdate(valid, body) == valid /\ ValidDateRange(body)

\* PutCheck with the validation response built and dropped, as the
\* handler drops the response for a body that failed to decode.
PutCheckInvalidNotReturned(err, valid, body) ==
    IF err = "ErrNoRows" THEN Resp(400, "trip not found")
    ELSE IF err # "nil" THEN Resp(400, "something went wrong, try again")
    ELSE GoOn

\* The update handler's answer to what GetTrip returned and, the trip
\* found, to the body.
PutCheck(err, valid, body) ==
    IF err = "ErrNoRows" THEN Resp(400, "trip not found")
    ELSE IF err # "nil" THEN Resp(400, "something went wrong, try again")
    ELSE IF ~ValidUpdate(valid, body) THEN Resp(400, "invalid input")
    ELSE GoOn

\* uuid.Parse, GetTrip (trip.IsConfirmed is kept), Decode and
\* validator.Struct.
PutTripsTripID_Get(c) ==
    /\ Arrives(c)
    /\ \E tripID \in PathParams, valid \in BOOLEAN, body \in Windows, fault \in BOOLEAN :
        LET u == ParseUUID(tripID)
            err == GetTrip(u.id, fault)
        IN  IF ~u.ok
              THEN /\ Serve(c, "PutTripsTripID", 0, "none")
                   /\ Return(c, Resp(400, "invalid uuid"))
                   /\ UNCHANGED local
              ELSE /\ Serve(c, "PutTripsTripID", u.id, err)
                   /\ local' = [local EXCEPT ![c] =
                                  IF err = "nil"
                                    THEN [StartsAt |-> body.StartsAt, EndsAt |-> body.EndsAt,
                                          IsConfirmed |-> trips[u.id].is_confirmed]
                                    ELSE @]
                   /\ Then(c, PutCheck(err, valid, body), "update")
    /\ UNCHANGED <<storeVars, email, request, tx, inserted, writes, tasks, logs, outbox, aggVars>>

\* UpdateTripParams with IsConfirmed left out of the literal (its zero
\* value is false).
UpdateTripParamsUnconfirmed(c) ==
    [ID |-> arg[c], IsConfirmed |-> FALSE,
     StartsAt |-> local[c].StartsAt, EndsAt |-> local[c].EndsAt]

\* pgstore.UpdateTripParams{...}: the dates of the body, and the
\* is_confirmed that GetTrip read.
UpdateTripParams(c) ==
    [ID |-> arg[c], IsConfirmed |-> local[c].IsConfirmed,
     StartsAt |-> local[c].StartsAt, EndsAt |-> local[c].EndsAt]

\* UpdateTrip and the 204 response.
PutTripsTripID_Update(c) ==
    /\ op[c] = "PutTripsTripID"
    /\ pc[c] = "update"
    /\ Issue(c, "UpdateTrip", arg[c])
    /\ \E fault \in BOOLEAN :
        IF fault
          THEN /\ Return(c, Resp(400, "failed to update trip, try again"))
               /\ UNCHANGED trips
          ELSE /\ trips' = StoreUpdateTrip(trips, UpdateTripParams(c))
               /\ Return(c, Resp(204, ""))
    /\ UNCHANGED <<participants, activities, nextID, op, arg, lookup, prior, email, local, request,
                   tx, inserted, tasks, logs, outbox, aggVars>>

\* ---------------------------------------- POST /trips/{tripId}/activities

\* The activity handler's answer to what GetTrip returned.
ActivityCheckTrip(err) ==
    IF err = "ErrNoRows" THEN Resp(400, "trip not found")
    ELSE IF err # "nil" THEN Resp(400, "something went wrong, try again")
    ELSE GoOn

\* The bodies a client sends with POST /trips/{tripId}/activities.
ActivityBodies == [Title : {"x", "y"}, OccursAt : TripDates]

\* uuid.Parse and GetTrip; the trip read is discarded (`_, err :=`).
PostTripsTripIDActivities_Get(c) ==
    /\ Arrives(c)
    /\ \E tripID \in PathParams, sent \in ActivityBodies, fault \in BOOLEAN :
        LET u == ParseUUID(tripID)
            err == GetTrip(u.id, fault)
        IN  IF ~u.ok
              THEN /\ Serve(c, "PostTripsTripIDActivities", 0, "none")
                   /\ Return(c, Resp(400, "invalid uuid"))
                   /\ UNCHANGED request
              ELSE /\ Serve(c, "PostTripsTripIDActivities", u.id, err)
                   /\ request' = [request EXCEPT ![c] = IF err = "nil" THEN sent ELSE @]
                   /\ Then(c, ActivityCheckTrip(err), "create")
    /\ UNCHANGED <<storeVars, email, local, tx, inserted, writes, tasks, logs, outbox, aggVars>>

\* `var body spec.CreateActivityRequest`: declared and never decoded from
\* the request, so the params hold the zero title and the zero time
\* whatever the client sent.
CreateActivityParams(c) == [TripID |-> arg[c], Title |-> "", OccursAt |-> ZeroTime]

\* CreateActivity and the 201 response.
PostTripsTripIDActivities_Create(c) ==
    /\ op[c] = "PostTripsTripIDActivities"
    /\ pc[c] = "create"
    /\ Issue(c, "CreateActivity", arg[c])
    /\ \E fault \in BOOLEAN :
        IF fault
          THEN /\ Return(c, Resp(400, "failed to create activity, try again"))
               /\ UNCHANGED <<activities, nextID>>
          ELSE /\ activities' = StoreCreateActivity(activities, nextID, CreateActivityParams(c))
               /\ nextID' = nextID + 1
               /\ Return(c, Resp(201, ""))
    /\ UNCHANGED <<trips, participants, op, arg, lookup, prior, email, local, request,
                   tx, inserted, tasks, logs, outbox, aggVars>>

\* ------------------------------------- GET /trips/{tripId}/activities

\* The first loop: the store's rows projected to response records.
ResponseActs(as) ==
    [i \in 1..Len(as) |-> [ID |-> as[i].id, Title |-> as[i].title, OccursAt |-> as[i].occurs_at]]

\* The second loop from Go index j on (ra[j+1] is responseActs[j]): the
\* first date is appended; a later one is appended when it differs from
\* responseActsDates[j-1]. That read indexes the dates with the index of
\* the activities: past the end of the dates the Go runtime panics.
RECURSIVE ScanDates(_, _, _)
ScanDates(ra, j, dates) ==
    IF j >= Len(ra) THEN [panic |-> FALSE, dates |-> dates]
    ELSE IF j = 0 THEN ScanDates(ra, 1, Append(dates, ra[1].OccursAt))
    ELSE IF j - 1 >= Len(dates) THEN [panic |-> TRUE, dates |-> dates]
    ELSE IF dates[j] # ra[j + 1].OccursAt
           THEN ScanDates(ra, j + 1, Append(dates, ra[j + 1].OccursAt))
    ELSE ScanDates(ra, j + 1, dates)

ResponseActsDates(ra) == ScanDates(ra, 0, << >>)

\* The inner loop: every activity whose OccursAt equals the date.
ActsInner(ra, date) == SelectSeq(ra, LAMBDA a : a.OccursAt = date)

\* The outer loop from Go index x on: one group appended per date.
RECURSIVE FillGroups(_, _, _, _)
FillGroups(ra, dates, x, final) ==
    IF x >= Len(dates) THEN final
    ELSE FillGroups(ra, dates, x + 1,
            AppendSlice(final, [Date |-> dates[x + 1], Activities |-> ActsInner(ra, dates[x + 1])]))

\* responseActsFinal before the outer loop: nil, replaced by an empty
\* literal when there is no date.
ResponseActsFinalInit(dates) == IF Len(dates) = 0 THEN EmptySlice ELSE NilSlice

\* The same place in internal/api/api.go, which has no empty literal.
ResponseActsFinalInitApiGo(dates) == NilSlice

\* What the handler answers for the list `as`, given responseActsFinal as
\* first declared. A panic of the handler's goroutine is recovered by
\* net/http, which writes no response and closes the connection.
ActivitiesResponse(as, final0) ==
    LET ra == ResponseActs(as)
        scan == ResponseActsDates(ra)
    IN  IF scan.panic
          THEN Itinerary(0, "panic: index out of range", NilSlice)
          ELSE Itinerary(200, "", FillGroups(ra, scan.dates, 0, final0))

\* GetTripActivities as the handler's store returns it: the rows of the
\* trip in any order, none for an id that names no trip (a sequence, never
\* pgx.ErrNoRows), or an error.
GetTripActivities(tripID, fault) ==
    LET rows == {a \in DOMAIN activities : activities[a].trip_id = tripID} IN
    IF fault THEN {[err |-> "error", acts |-> << >>]}
    ELSE {[err |-> "nil",
           acts |-> [k \in DOMAIN l |-> [id |-> l[k], title |-> activities[l[k]].title,
                                          occurs_at |-> activities[l[k]].occurs_at]]] :
            l \in {m \in [1..Cardinality(rows) -> rows] :
                        \A a, b \in DOMAIN m : a # b => m[a] # m[b]}}

\* The itinerary handler's answer to what GetTripActivities returned: its
\* error branches, else the aggregated itinerary. The handler calls no
\* GetTrip.
ActivitiesCheck(tripID, got) ==
    IF got.err = "ErrNoRows" THEN Resp(400, "trip not found")
    ELSE IF got.err # "nil" THEN Resp(400, "something went wrong, try again")
    ELSE LET r == ActivitiesResponse(got.acts,
                    ResponseActsFinalInit(ResponseActsDates(ResponseActs(got.acts)).dates))
         IN  Resp(r.code, r.msg)

\* uuid.Parse, GetTripActivities, the aggregation and the response.
GetTripsTripIDActivities_Get(c) ==
    /\ Arrives(c)
    /\ \E tripID \in PathParams, fault \in BOOLEAN :
        LET u == ParseUUID(tripID) IN
        IF ~u.ok
          THEN /\ Serve(c, "GetTripsTripIDActivities", 0, "none")
               /\ Return(c, Resp(400, "invalid uuid"))
          ELSE \E got \in GetTripActivities(u.id, fault) :
               /\ Serve(c, "GetTripsTripIDActivities", u.id, got.err)
               /\ Return(c, ActivitiesCheck(u.id, got))
    /\ UNCHANGED <<storeVars, email, local, request, tx, inserted, writes, tasks, logs, outbox, aggVars>>

\* ------------------------------------------------------------- goroutines

\* GetParticipants(tripID) as the mailer's store returns it: the rows of
\* the trip, in any order (the query has no ORDER BY the handler relies on).
GetParticipants(tripID) ==
    {l \in [1..Cardinality(Roster(tripID)) -> Roster(tripID)] :
        \A a, b \in DOMAIN l : a # b => l[a] # l[b]}

\* mail.NewMsg(): a message without recipients.
NewMsg == [to |-> {}]

\* Msg.To(addr) of go-mail: sets the To header of the message to the
\* addresses given, replacing what it held (AddTo is the method that adds).
MsgTo(msg, addr) == [msg EXCEPT !.to = {addr}]

\* for _, part := range participants { msg.To(part.Email) }, from index k.
RECURSIVE AddressParticipants(_, _, _)
AddressParticipants(msg, parts, k) ==
    IF k > Len(parts) THEN msg
    ELSE AddressParticipants(MsgTo(msg, participants[parts[k]].email), parts, k + 1)

\* trip.OwnerEmail, the recipient of SendConfirmTripEmailToTripOwner.
OwnerEmail == "owner@x"

\* The message a mailer method builds before DialAndSend.
BuildMessage(kind, parts) ==
    IF kind = "SendEmailInvitations" THEN AddressParticipants(NewMsg, parts, 1)
    ELSE MsgTo(NewMsg, OwnerEmail)

\* MailerRun calling the mailer again after an error: the error is logged
\* and the goroutine keeps running.
MailerRunRetried(i) ==
    /\ tasks[i].status = "running"
    /\ \E sent \in BOOLEAN :
        IF sent
          THEN /\ tasks' = [tasks EXCEPT ![i].status = "sent"]
               /\ UNCHANGED logs
          ELSE /\ logs' = logs \cup {i}
               /\ UNCHANGED tasks
    /\ UNCHANGED <<storeVars, callVars, outbox, aggVars>>

\* The body of a spawned goroutine: one call of the mailer; an error (of
\* the store, of the mail server, or of DialAndSend on a message without
\* recipients) is logged with api.logger.Error and the goroutine ends.
MailerRun(i) ==
    /\ tasks[i].status = "running"
    /\ \E sent \in BOOLEAN, parts \in GetParticipants(tasks[i].trip) :
        LET msg == BuildMessage(tasks[i].kind, parts) IN
        IF sent /\ msg.to # {}
          THEN /\ tasks' = [tasks EXCEPT ![i].status = "sent"]
               /\ outbox' = outbox \cup {[task |-> i, to |-> msg.to]}
               /\ UNCHANGED logs
          ELSE /\ tasks' = [tasks EXCEPT ![i].status = "failed"]
               /\ logs' = logs \cup {i}
               /\ UNCHANGED outbox
    /\ UNCHANGED <<storeVars, callVars, aggVars>>

\* ------------------------------------------------------------------ spec

Handler(c) ==
    \/ PatchParticipantsParticipantIDConfirm_Get(c)
    \/ PatchParticipantsParticipantIDConfirm_Confirm(c)
    \/ PostTrips_Create(c)
    \/ PostTrips_Return(c)
    \/ GetTripsTripIDConfirm_Get(c)
    \/ GetTripsTripIDConfirm_Confirm(c)
    \/ GetTripsTripIDConfirm_Return(c)
    \/ PostTripsTripIDInvites_Get(c)
    \/ PostTripsTripIDInvites_Begin(c)
    \/ PostTripsTripIDInvites_Insert(c)
    \/ PostTripsTripIDInvites_Commit(c)
    \/ PutTripsTripID_Get(c)
    \/ PutTripsTripID_Update(c)
    \/ PostTripsTripIDActivities_Get(c)
    \/ PostTripsTripIDActivities_Create(c)
    \/ GetTripsTripIDActivities_Get(c)

Next ==
    \/ \E c \in Calls : Handler(c)
    \/ \E i \in DOMAIN tasks : MailerRun(i)

Spec == Init /\ [][Next]_vars

\* The steps of a handler after its request arrived.
Proceed(c) ==
    \/ PatchParticipantsParticipantIDConfirm_Confirm(c)
    \/ PostTrips_Return(c)
    \/ GetTripsTripIDConfirm_Confirm(c)
    \/ GetTripsTripIDConfirm_Return(c)
    \/ PostTripsTripIDInvites_Begin(c)
    \/ PostTripsTripIDInvites_Insert(c)
    \/ PostTripsTripIDInvites_Commit(c)
    \/ PutTripsTripID_Update(c)
    \/ PostTripsTripIDActivities_Create(c)

\* The Go scheduler runs every handler goroutine that can run. Nothing is
\* assumed of the mailer goroutines: a mail server may never answer.
LiveSpec == Spec /\ \A c \in Calls : WF_vars(Proceed(c))

\* ------------------------------------------------ itinerary aggregator

\* GetTripsTripIDActivities after GetTripActivities returned `acts`.
GetTripsTripIDActivities ==
    /\ actsBy = "none"
    /\ actsBy' = "part_000"
    /\ actsResp' = ActivitiesResponse(acts,
                        ResponseActsFinalInit(ResponseActsDates(ResponseActs(acts)).dates))
    /\ UNCHANGED <<storeVars, callVars, tasks, logs, outbox, acts>>

\* The copy of the handler in internal/api/api.go.
GetTripsTripIDActivitiesApiGo ==
    /\ actsBy = "none"
    /\ actsBy' = "api.go"
    /\ actsResp' = ActivitiesResponse(acts,
                        ResponseActsFinalInitApiGo(ResponseActsDates(ResponseActs(acts)).dates))
    /\ UNCHANGED <<storeVars, callVars, tasks, logs, outbox, acts>>

\* Titles of the activities handed to the aggregator.
Titles == {"x", "y"}

\* GetTripActivities is unordered by contract: any list of rows, with ids
\* 1..n, may reach the handler.
ActLists ==
    UNION {{[i \in 1..n |-> [id |-> i, title |-> t[i], occurs_at |-> d[i]]] :
                d \in [1..n -> Dates], t \in [1..n -> Titles]} : n \in 0..MaxActs}

\* The lists the store holds after n PostTripsTripIDActivities requests on
\* one trip: n rows with the params that handler passes to CreateActivity.
StoredLists ==
    {[i \in 1..n |-> [id |-> i, title |-> CreateActivityParams(1).Title,
                       occurs_at |-> CreateActivityParams(1).OccursAt]] : n \in 0..MaxActs}

AggInit ==
    /\ trips = NoTrips
    /\ participants = NoParticipants
    /\ activities = NoActivities
    /\ nextID = 1
    /\ InitCalls
    /\ acts \in ActLists \cup StoredLists
    /\ actsBy = "none"
    /\ actsResp = NoItinerary

AggNext ==
    \/ GetTripsTripIDActivities
    \/ GetTripsTripIDActivitiesApiGo

\* The itinerary aggregator on every list of at most MaxActs activities.
AggSpec == AggInit /\ [][AggNext]_vars

\* ---------------------------------------------------------------- claims

\* Call c was served by handler `name` and the handler has returned.
Returned(c, name) == op[c] = name /\ pc[c] = "done"

\* Call c issued the store write fn.
Issued(c, fn) == \E k \in DOMAIN writes[c] : writes[c][k].fn = fn

\* C1: of two PatchParticipantsParticipantIDConfirm requests on the same
\* participant, whatever the interleaving of their GetParticipant and
\* ConfirmParticipant steps, at most one returns success (204).
C1_AtMostOneConfirmSucceeds ==
    \A c1, c2 \in Calls :
        /\ c1 # c2
        /\ Returned(c1, "PatchParticipantsParticipantIDConfirm")
        /\ Returned(c2, "PatchParticipantsParticipantIDConfirm")
        /\ arg[c1] = arg[c2]
        => ~(resp[c1].code = 204 /\ resp[c2].code = 204)

\* C2: whenever GetTripsTripIDConfirm has returned success (204) for an
\* existing trip, the stored trip is confirmed.
C2_ConfirmedAfterSuccess ==
    \A c \in Calls :
        Returned(c, "GetTripsTripIDConfirm") /\ resp[c].code = 204
        => arg[c] \in DOMAIN trips /\ trips[arg[c]].is_confirmed

\* Equal occurs_at values are contiguous in the list.
Contiguous(as) ==
    \A i, k \in 1..Len(as) :
        i < k /\ as[i].occurs_at = as[k].occurs_at
        => \A m \in i..k : as[m].occurs_at = as[i].occurs_at

\* One group per distinct date, in order of first occurrence, each holding
\* the records of its date in input order.
RECURSIVE GroupByDate(_)
GroupByDate(ra) ==
    IF ra = << >> THEN << >>
    ELSE LET d == ra[1].OccursAt IN
         <<[Date |-> d, Activities |-> SelectSeq(ra, LAMBDA a : a.OccursAt = d)]>>
            \o GroupByDate(SelectSeq(ra, LAMBDA a : a.OccursAt # d))

\* C3: for a list whose equal dates are contiguous, GetTripsTripIDActivities
\* returns exactly one group per distinct date, in order of first
\* occurrence, each with the activities of that date in input order.
C3_ContiguousDatesGrouped ==
    actsBy # "none" /\ Contiguous(acts)
    => /\ actsResp.code = 200
       /\ actsResp.activities.elems = GroupByDate(ResponseActs(acts))

\* The maximal runs of consecutive records with equal date, in input order.
RECURSIVE MaximalRuns(_)
MaximalRuns(ra) ==
    IF ra = << >> THEN << >>
    ELSE LET d == ra[1].OccursAt
             n == CHOOSE n \in 1..Len(ra) :
                    /\ \A i \in 1..n : ra[i].OccursAt = d
                    /\ n = Len(ra) \/ ra[n + 1].OccursAt # d
         IN  <<[Date |-> d, Activities |-> SubSeq(ra, 1, n)]>>
                \o MaximalRuns(SubSeq(ra, n + 1, Len(ra)))

\* C4: for every list, the groups GetTripsTripIDActivities returns are the
\* maximal runs of consecutive records with equal occurs_at, in input order.
C4_GroupsAreMaximalRuns ==
    actsBy # "none"
    => /\ actsResp.code = 200
       /\ actsResp.activities.elems = MaximalRuns(ResponseActs(acts))

\* C5: for a trip without activities GetTripsTripIDActivities returns an
\* empty sequence of groups that is not nil (JSON [] and not null).
C5_EmptyNeverNil ==
    actsBy # "none" /\ acts = << >>
    => actsResp.code = 200 /\ ~actsResp.activities.isNil

\* C6: once PostTripsTripIDInvites has returned, either it returned 201
\* and the participant it inserted is in the store, for the trip and the
\* e-mail of the request, or it returned an error and no row it inserted is
\* in the store.
C6_InvitesAllOrNothing ==
    \A c \in Calls :
        Returned(c, "PostTripsTripIDInvites")
        => IF resp[c].code = 201
             THEN /\ inserted[c] # {}
                  /\ \A p \in inserted[c] :
                        /\ p \in DOMAIN participants
                        /\ participants[p].trip_id = arg[c]
                        /\ participants[p].email = email[c]
             ELSE inserted[c] \cap DOMAIN participants = {}

\* An invitation whose insert succeeded and whose commit failed has returned.
C6_Witness ==
    \E c \in Calls :
        /\ Returned(c, "PostTripsTripIDInvites")
        /\ resp[c].msg = "pgstore: failed to commit tx for PostTripsTripIDInvites"
        /\ inserted[c] # {}

\* C7: once PostTripsTripIDInvites has returned, the transaction it began
\* is closed: committed exactly when the handler returned 201, rolled back
\* on every other return after Begin succeeded, with no row left pending.
C7_TransactionClosedOnReturn ==
    \A c \in Calls :
        Returned(c, "PostTripsTripIDInvites")
        => /\ tx[c].state # "open"
           /\ tx[c].pending = NoParticipants
           /\ tx[c].state = "committed" <=> resp[c].code = 201
           /\ Issued(c, "InviteParticipantsToTrip") /\ resp[c].code # 201
                => tx[c].state = "rolledback"

\* An invitation whose insert failed has returned through the rollback.
C7_Witness ==
    \E c \in Calls :
        /\ Returned(c, "PostTripsTripIDInvites")
        /\ resp[c].msg = "pgstore: failed to insert participants for PostTripsTripIDInvites"
        /\ tx[c].state = "rolledback"

\* C8 as stated: every GetTripsTripIDConfirm call on an existing trip
\* dispatches exactly one invitation task.
C8_EveryCallDispatchesOnce ==
    \A c \in Calls :
        Returned(c, "GetTripsTripIDConfirm") /\ arg[c] \in DOMAIN trips
        => Cardinality(TasksOf(c)) = 1

\* C8, amended: a GetTripsTripIDConfirm call that returned 204 (on a trip
\* confirmed or not, with any roster) has dispatched exactly one
\* SendEmailInvitations task for its trip, a call that returned an error
\* has dispatched none, and the response is 204 whatever became of the task.
C8_SuccessDispatchesOnce ==
    \A c \in Calls :
        Returned(c, "GetTripsTripIDConfirm")
        => IF resp[c].code = 204
             THEN /\ Cardinality(TasksOf(c)) = 1
                  /\ \A i \in TasksOf(c) :
                        tasks[i].kind = "SendEmailInvitations" /\ tasks[i].trip = arg[c]
             ELSE TasksOf(c) = {}

\* A confirm call on an already confirmed trip returned 204 and its
\* invitation task failed.
C8_Witness ==
    \E c \in Calls :
        /\ Returned(c, "GetTripsTripIDConfirm")
        /\ resp[c].code = 204
        /\ trips[arg[c]].is_confirmed
        /\ \E i \in TasksOf(c) : tasks[i].status = "failed"

\* C9: a PostTrips or GetTripsTripIDConfirm handler that has spawned its
\* notification task returns its response, also when the task never
\* completes.
C9_ReturnsWithoutNotifier ==
    \A c \in Calls : (pc[c] = "return") ~> (pc[c] = "done")

\* A handler has returned its success response while the task it spawned
\* is still running.
C9_Witness ==
    \E c \in Calls :
        /\ pc[c] = "done"
        /\ resp[c].code \in {201, 204}
        /\ \E i \in TasksOf(c) : tasks[i].status = "running"

\* C10 as stated: confirming a participant id that is not in the store
\* yields the not-found error and issues no ConfirmParticipant write.
C10_AbsentIsNotFound ==
    \A c \in Calls :
        /\ Returned(c, "PatchParticipantsParticipantIDConfirm")
        /\ lookup[c] # "none"
        /\ arg[c] \notin DOMAIN participants
        => /\ resp[c] = Resp(400, "participant not found")
           /\ ~Issued(c, "ConfirmParticipant")

\* C10, amended: confirming a participant id that is not in the store
\* never succeeds and issues no ConfirmParticipant write; the response is
\* the not-found error when GetParticipant reported pgx.ErrNoRows, and
\* "something went wrong, try again" when the lookup itself failed.
C10_AbsentNeverConfirmed ==
    \A c \in Calls :
        /\ Returned(c, "PatchParticipantsParticipantIDConfirm")
        /\ lookup[c] # "none"
        /\ arg[c] \notin DOMAIN participants
        => /\ ~Issued(c, "ConfirmParticipant")
           /\ lookup[c] \in {"ErrNoRows", "error"}
           /\ lookup[c] = "ErrNoRows" => resp[c] = Resp(400, "participant not found")
           /\ lookup[c] = "error" => resp[c] = Resp(400, "something went wrong, try again")

\* A confirmation of an id that names no participant was answered with
\* the not-found error.
C10_Witness ==
    \E c \in Calls :
        /\ Returned(c, "PatchParticipantsParticipantIDConfirm")
        /\ arg[c] \notin DOMAIN participants
        /\ lookup[c] = "ErrNoRows"
        /\ resp[c] = Resp(400, "participant not found")


\* Call c is received in this step by handler `name`.
Receives(c, name) == op[c] = "idle" /\ op'[c] = name

\* C11 as stated: a PatchParticipantsParticipantIDConfirm request for a
\* participant that is confirmed when the request is served is always
\* answered "participant already confirmed", issues no write and leaves
\* the store unchanged.
C11_ConfirmedAlwaysRejected ==
    [][\A c \in Calls :
        /\ Receives(c, "PatchParticipantsParticipantIDConfirm")
        /\ arg'[c] \in DOMAIN participants
        /\ participants[arg'[c]].is_confirmed
        => /\ resp'[c] = Resp(400, "participant already confirmed")
           /\ writes'[c] = << >>
           /\ UNCHANGED storeVars]_vars

\* C11, amended: such a request never succeeds, issues no write and leaves
\* the store unchanged; it is answered "participant already confirmed"
\* when GetParticipant returned the row and "something went wrong, try
\* again" when the lookup itself failed.
C11_ConfirmedNeverRewritten ==
    [][\A c \in Calls :
        /\ Receives(c, "PatchParticipantsParticipantIDConfirm")
        /\ arg'[c] \in DOMAIN participants
        /\ participants[arg'[c]].is_confirmed
        => /\ pc'[c] = "done"
           /\ writes'[c] = << >>
           /\ UNCHANGED storeVars
           /\ lookup'[c] \in {"nil", "error"}
           /\ lookup'[c] = "nil" => resp'[c] = Resp(400, "participant already confirmed")
           /\ lookup'[c] = "error" => resp'[c] = Resp(400, "something went wrong, try again")]_vars

\* A request on a participant an earlier request confirmed was answered
\* "participant already confirmed" and the participant is still confirmed.
C11_Witness ==
    \E c \in Calls :
        /\ Returned(c, "PatchParticipantsParticipantIDConfirm")
        /\ resp[c] = Resp(400, "participant already confirmed")
        /\ writes[c] = << >>
        /\ participants[arg[c]].is_confirmed


\* The PatchParticipantsParticipantIDConfirm requests served so far whose
\* lookup of participant p did not report the row missing.
ConfirmCalls(p) ==
    {c \in Calls : /\ op[c] = "PatchParticipantsParticipantIDConfirm"
                   /\ arg[c] = p
                   /\ lookup[c] \in {"nil", "error"}}

\* Those requests were served one after the other: each had returned when
\* the next was received.
Sequential(p) == \A c, d \in ConfirmCalls(p) : c < d => c \in prior[d]

\* C12 as stated: of sequential confirm requests on one participant (every
\* participant starts unconfirmed) the first succeeds and leaves the
\* participant confirmed, and every later one is answered "participant
\* already confirmed".
C12_FirstSucceedsLaterRejected ==
    \A p \in DOMAIN participants :
        Sequential(p) =>
            \A c \in ConfirmCalls(p) :
                pc[c] = "done" =>
                    IF \A d \in ConfirmCalls(p) : d >= c
                      THEN resp[c].code = 204 /\ participants[p].is_confirmed
                      ELSE resp[c] = Resp(400, "participant already confirmed")

\* C12, amended: of sequential confirm requests on one participant, a
\* request whose lookup failed is answered "something went wrong, try
\* again" and writes nothing; one served before any success issues the
\* write and succeeds unless the write fails; one served after a success
\* is answered "participant already confirmed" and writes nothing. At most
\* one request succeeds, and the participant is confirmed exactly when one
\* has.
C12_ConfirmedExactlyOnce ==
    \A p \in DOMAIN participants :
        Sequential(p) =>
            /\ Cardinality({c \in ConfirmCalls(p) : resp[c].code = 204}) <= 1
            /\ participants[p].is_confirmed <=> \E c \in ConfirmCalls(p) : resp[c].code = 204
            /\ \A c \in ConfirmCalls(p) :
                  pc[c] = "done" =>
                    LET won == \E d \in ConfirmCalls(p) : d < c /\ resp[d].code = 204 IN
                    /\ lookup[c] = "error"
                          => /\ resp[c] = Resp(400, "something went wrong, try again")
                             /\ writes[c] = << >>
                    /\ lookup[c] = "nil" /\ won
                          => /\ resp[c] = Resp(400, "participant already confirmed")
                             /\ writes[c] = << >>
                    /\ lookup[c] = "nil" /\ ~won
                          => /\ Issued(c, "ConfirmParticipant")
                             /\ resp[c] \in {Resp(204, ""), Resp(400, "something went wrong, try again")}

\* Two confirm requests on one participant were served one after the
\* other: the first succeeded, the second was rejected.
C12_Witness ==
    \E c, d \in Calls : \E p \in DOMAIN participants :
        /\ {c, d} \subseteq ConfirmCalls(p)
        /\ c \in prior[d]
        /\ resp[c].code = 204
        /\ pc[d] = "done"
        /\ resp[d] = Resp(400, "participant already confirmed")
        /\ participants[p].is_confirmed


\* C13 as stated: a GetTripsTripIDConfirm request for a trip id that is
\* not in the store is answered "trip not found", changes no trip and no
\* participant, issues no write and spawns no notification goroutine.
C13_AbsentTripNotFound ==
    [][\A c \in Calls :
        /\ Receives(c, "GetTripsTripIDConfirm")
        /\ lookup'[c] # "none"
        /\ arg'[c] \notin DOMAIN trips
        => /\ resp'[c] = Resp(400, "trip not found")
           /\ writes'[c] = << >>
           /\ UNCHANGED <<storeVars, tasks>>]_vars

\* C13, amended: such a request never succeeds, changes no trip and no
\* participant, issues no write and spawns no goroutine; it is answered
\* "trip not found" when GetTrip reported pgx.ErrNoRows and "something
\* went wrong, try again" when the lookup itself failed.
C13_AbsentTripNeverConfirmed ==
    [][\A c \in Calls :
        /\ Receives(c, "GetTripsTripIDConfirm")
        /\ lookup'[c] # "none"
        /\ arg'[c] \notin DOMAIN trips
        => /\ pc'[c] = "done"
           /\ writes'[c] = << >>
           /\ UNCHANGED <<storeVars, tasks>>
           /\ lookup'[c] \in {"ErrNoRows", "error"}
           /\ lookup'[c] = "ErrNoRows" => resp'[c] = Resp(400, "trip not found")
           /\ lookup'[c] = "error" => resp'[c] = Resp(400, "something went wrong, try again")]_vars

\* A confirmation of an id that names no trip was answered "trip not
\* found", with no write and no goroutine.
C13_Witness ==
    \E c \in Calls :
        /\ Returned(c, "GetTripsTripIDConfirm")
        /\ arg[c] \notin DOMAIN trips
        /\ lookup[c] = "ErrNoRows"
        /\ resp[c] = Resp(400, "trip not found")
        /\ writes[c] = << >>
        /\ TasksOf(c) = {}


C15_ConfirmedNeverReverts ==
    [][/\ \A t \in DOMAIN trips :
            trips[t].is_confirmed => t \in DOMAIN trips' /\ trips'[t].is_confirmed
       /\ \A p \in DOMAIN participants :
            participants[p].is_confirmed
            => p \in DOMAIN participants' /\ participants'[p].is_confirmed]_vars

\* An update of a confirmed trip was written, the trip is still confirmed,
\* and a participant has been confirmed.
C15_Witness ==
    /\ \E c \in Calls :
        /\ Returned(c, "PutTripsTripID")
        /\ resp[c].code = 204
        /\ local[c].IsConfirmed
        /\ trips[arg[c]].is_confirmed
    /\ \E p \in DOMAIN participants : participants[p].is_confirmed


\* C16: every activity PostTripsTripIDActivities has stored has an
\* occurs_at within the [starts_at, ends_at] window of its trip.
C16_ActivitiesInsideWindow ==
    \A a \in DOMAIN activities :
        LET t == activities[a].trip_id IN
        /\ t \in DOMAIN trips
        /\ trips[t].starts_at <= activities[a].occurs_at
        /\ activities[a].occurs_at <= trips[t].ends_at


\* Call c has begun no transaction and inserted nothing.
NothingBegun(c) == writes[c] = << >> /\ tx[c] = NoTx /\ inserted[c] = {}

\* C17 as stated: PostTripsTripIDInvites begins a transaction and inserts
\* only after GetTrip found the trip and the e-mail passed validation; for
\* a trip id not in the store it answers "trip not found" and for an
\* invalid e-mail "invalid input", in both cases with no transaction begun
\* and nothing inserted.
C17_InvitesGuarded ==
    \A c \in Calls :
        op[c] = "PostTripsTripIDInvites"
        => /\ ~NothingBegun(c) => lookup[c] = "nil" /\ ValidEmail(email[c])
           /\ pc[c] = "done" /\ lookup[c] # "none" /\ arg[c] \notin DOMAIN trips
                => resp[c] = Resp(400, "trip not found") /\ NothingBegun(c)
           /\ pc[c] = "done" /\ lookup[c] = "nil" /\ ~ValidEmail(email[c])
                => resp[c] = Resp(400, "invalid input") /\ NothingBegun(c)

\* C17, amended: as C17, but for a trip id not in the store the answer is
\* "trip not found" when GetTrip reported pgx.ErrNoRows and "something
\* went wrong, try again" when the lookup itself failed.
C17_InvitesGuardedOrLookupFailed ==
    \A c \in Calls :
        op[c] = "PostTripsTripIDInvites"
        => /\ ~NothingBegun(c) => lookup[c] = "nil" /\ ValidEmail(email[c])
           /\ pc[c] = "done" /\ lookup[c] # "none" /\ arg[c] \notin DOMAIN trips
                => /\ NothingBegun(c)
                   /\ lookup[c] \in {"ErrNoRows", "error"}
                   /\ lookup[c] = "ErrNoRows" => resp[c] = Resp(400, "trip not found")
                   /\ lookup[c] = "error"
                        => resp[c] = Resp(400, "something went wrong, try again")
           /\ pc[c] = "done" /\ lookup[c] = "nil" /\ ~ValidEmail(email[c])
                => resp[c] = Resp(400, "invalid input") /\ NothingBegun(c)

\* One invitation for a trip id not in the store was answered "trip not
\* found" and one with an invalid e-mail for an existing trip "invalid
\* input", neither with a transaction begun.
C17_Witness ==
    \E c, d \in Calls :
        /\ Returned(c, "PostTripsTripIDInvites")
        /\ arg[c] \notin DOMAIN trips
        /\ resp[c] = Resp(400, "trip not found")
        /\ NothingBegun(c)
        /\ Returned(d, "PostTripsTripIDInvites")
        /\ lookup[d] = "nil"
        /\ email[d] = BadEmail
        /\ resp[d] = Resp(400, "invalid input")
        /\ NothingBegun(d)


\* The last store call the handler of call c issued was fn.
LastIssued(c, fn) == writes[c] # << >> /\ writes[c][Len(writes[c])].fn = fn

\* The responses PostTripsTripIDInvites gives a body that fails validation
\* (validator.Struct, uuid.Parse).
ValidationFailures == {Resp(400, "invalid input"), Resp(400, "invalid uuid")}

\* C18: when tx.Commit fails, PostTripsTripIDInvites returns the
\* commit-failure response, which is none of the validation-failure
\* responses, and the participant it inserted is not in the store.
C18_CommitFailureDistinct ==
    \A c \in Calls :
        /\ Returned(c, "PostTripsTripIDInvites")
        /\ LastIssued(c, "Commit")
        /\ tx[c].state # "committed"
        => /\ resp[c] = Resp(400, "pgstore: failed to commit tx for PostTripsTripIDInvites")
           /\ resp[c] \notin ValidationFailures
           /\ inserted[c] # {}
           /\ inserted[c] \cap DOMAIN participants = {}
           /\ \A p \in DOMAIN participants :
                 participants[p].trip_id = arg[c] /\ participants[p].email = email[c]
                 => \E d \in Calls \ {c} : p \in inserted[d]

\* One invitation failed at its commit and another failed validation: the
\* two responses differ and the first left no participant.
C18_Witness ==
    \E c, d \in Calls :
        /\ Returned(c, "PostTripsTripIDInvites")
        /\ LastIssued(c, "Commit")
        /\ tx[c].state = "rolledback"
        /\ Returned(d, "PostTripsTripIDInvites")
        /\ resp[d] = Resp(400, "invalid input")
        /\ resp[c] # resp[d]
        /\ inserted[c] \cap DOMAIN participants = {}


\* The handler of call c has not returned an error: it is past its write
\* and about to return, or has returned, the success response `code`.
WriteSucceeded(c, fn, code) ==
    /\ LastIssued(c, fn)
    /\ \/ pc[c] = "return" /\ resp[c] = NoResp
       \/ pc[c] = "done" /\ resp[c].code = code

\* C19: a notification goroutine exists only for a call whose store write
\* succeeded: a SendEmailInvitations goroutine for a GetTripsTripIDConfirm
\* call whose ConfirmParticipant returned no error, a
\* SendConfirmTripEmailToTripOwner goroutine for a PostTrips call whose
\* CreateTrip stored the trip; a call that returned an error has spawned
\* none.
C19_DispatchAfterWrite ==
    /\ \A i \in DOMAIN tasks :
          LET c == tasks[i].by IN
          /\ tasks[i].trip = arg[c]
          /\ tasks[i].kind = "SendEmailInvitations"
                => /\ op[c] = "GetTripsTripIDConfirm"
                   /\ WriteSucceeded(c, "ConfirmParticipant", 204)
          /\ tasks[i].kind = "SendConfirmTripEmailToTripOwner"
                => /\ op[c] = "PostTrips"
                   /\ WriteSucceeded(c, "CreateTrip", 201)
                   /\ arg[c] \in DOMAIN trips
          /\ tasks[i].kind \in {"SendEmailInvitations", "SendConfirmTripEmailToTripOwner"}
    /\ \A c \in Calls :
          pc[c] = "done" /\ resp[c].code = 400 => TasksOf(c) = {}

\* A PostTrips call stored its trip and spawned its goroutine, and a
\* GetTripsTripIDConfirm call whose ConfirmParticipant failed spawned none.
C19_Witness ==
    \E c, d \in Calls :
        /\ op[c] = "PostTrips"
        /\ TasksOf(c) # {}
        /\ arg[c] \in DOMAIN trips
        /\ Returned(d, "GetTripsTripIDConfirm")
        /\ resp[d] = Resp(400, "failed to confirm participant, try again")
        /\ TasksOf(d) = {}


\* C20: in every step, a goroutine that has ended (its one call of the
\* mailer returned) stays as it ended and logs nothing more; a step in
\* which the mailer call of a running goroutine returns ends it, as sent
\* or as failed, logs it exactly when it failed, and changes nothing of the
\* store or of any handler; a logged goroutine is a failed one.
C20_TaskRunsOnce ==
    [][\A i \in DOMAIN tasks :
        /\ i \in DOMAIN tasks'
        /\ i \in logs' => tasks'[i].status = "failed"
        /\ tasks[i].status # "running"
              => tasks'[i] = tasks[i] /\ (i \in logs' <=> i \in logs)
        /\ tasks[i].status = "running" /\ (tasks'[i] # tasks[i] \/ i \in logs')
              => /\ tasks'[i] = [tasks[i] EXCEPT !.status = tasks'[i].status]
                 /\ tasks'[i].status \in {"sent", "failed"}
                 /\ tasks'[i].status = "failed" <=> i \in logs'
                 /\ UNCHANGED <<storeVars, callVars>>]_vars

\* One goroutine failed and was logged, another sent its mail, and both
\* callers returned their success responses.
C20_Witness ==
    \E i, j \in DOMAIN tasks :
        /\ tasks[i].status = "failed"
        /\ i \in logs
        /\ tasks[j].status = "sent"
        /\ j \notin logs
        /\ resp[tasks[i].by].code \in {201, 204}
        /\ resp[tasks[j].by].code \in {201, 204}


\* C21: the message a SendEmailInvitations goroutine sends for trip T is
\* addressed to every participant GetParticipants(T) returned: in the
\* step that sends it, its recipients are the e-mail addresses of the whole
\* roster of T.
C21_InvitationToFullRoster ==
    [][\A i \in DOMAIN tasks :
        /\ tasks[i].kind = "SendEmailInvitations"
        /\ tasks[i].status = "running"
        /\ tasks'[i].status = "sent"
        => \E m \in outbox' :
              /\ m.task = i
              /\ m.to = {participants[p].email : p \in Roster(tasks[i].trip)}]_vars


\* C22: GetTripsTripIDActivities returns a response for every list the
\* store can return, the lists left by PostTripsTripIDActivities requests
\* included: the date scan never reads responseActsDates outside its
\* bounds, so the handler does not panic.
C22_ScanWithinBounds ==
    actsBy # "none"
    => /\ ~ResponseActsDates(ResponseActs(acts)).panic
       /\ actsResp # Itinerary(0, "panic: index out of range", NilSlice)


\* The number of times activity id appears in the groups gs, from group g on.
RECURSIVE Occurrences(_, _, _)
Occurrences(gs, g, id) ==
    IF g > Len(gs) THEN 0
    ELSE Cardinality({k \in DOMAIN gs[g].Activities : gs[g].Activities[k].ID = id})
            + Occurrences(gs, g + 1, id)

\* The number of activities over all the groups gs, from group g on.
RECURSIVE TotalActivities(_, _)
TotalActivities(gs, g) ==
    IF g > Len(gs) THEN 0 ELSE Len(gs[g].Activities) + TotalActivities(gs, g + 1)

\* C23: in a result of GetTripsTripIDActivities every input activity
\* appears in exactly one group, and the number of activities over all
\* groups is the number of input activities.
C23_EachActivityOnce ==
    actsBy # "none" /\ actsResp.code = 200
    => /\ \A i \in DOMAIN acts : Occurrences(actsResp.activities.elems, 1, acts[i].id) = 1
       /\ TotalActivities(actsResp.activities.elems, 1) = Len(acts)


\* C24: every ConfirmParticipant a handler has issued was issued by a
\* PatchParticipantsParticipantIDConfirm request, with the id of the
\* participant its GetParticipant returned (and read as unconfirmed);
\* none was issued with the id of a trip.
C24_ConfirmsOnlyParticipants ==
    \A c \in Calls : \A k \in DOMAIN writes[c] :
        writes[c][k].fn = "ConfirmParticipant"
        => /\ op[c] = "PatchParticipantsParticipantIDConfirm"
           /\ lookup[c] = "nil"
           /\ writes[c][k].id = arg[c]
           /\ writes[c][k].id \in DOMAIN participants
           /\ writes[c][k].id \notin DOMAIN trips


\* C25: the activity a successful PostTripsTripIDActivities stored for its
\* trip carries the title and the occurs_at of the request, and the
\* params the handler builds for CreateActivity are the request's values.
C25_ActivityAsRequested ==
    \A c \in Calls :
        Returned(c, "PostTripsTripIDActivities") /\ resp[c].code = 201
        => /\ CreateActivityParams(c).Title = request[c].Title
           /\ CreateActivityParams(c).OccursAt = request[c].OccursAt
           /\ \E a \in DOMAIN activities :
                 /\ activities[a].trip_id = arg[c]
                 /\ activities[a].title = request[c].Title
                 /\ activities[a].occurs_at = request[c].OccursAt


\* C26: a GetTripsTripIDActivities request for a trip id that is not in
\* the store, whose store call did not fail, is answered "trip not found"
\* and not with a success response.
C26_AbsentTripItineraryNotFound ==
    \A c \in Calls :
        /\ Returned(c, "GetTripsTripIDActivities")
        /\ lookup[c] = "nil"
        /\ arg[c] \notin DOMAIN trips
        => /\ resp[c].code # 200
           /\ resp[c] = Resp(400, "trip not found")

====
